---- MODULE Spec2Model ----
(***************************************************************************)
(* Five-card poker hand evaluation (PokerConcepts): the card model, the    *)
(* hand analysis helpers, the rank catalog and the hand comparator, as     *)
(* pure operators, and the specifications that apply them to bounded sets  *)
(* of hands; and the game loop (deal, two rounds of discard and refill,     *)
(* winners, reset) as a state machine.                                     *)
(*                                                                         *)
(* A card is the pair <<face value, suit value>>; a hand is a sequence of  *)
(* cards; a dict is the sequence of its <<key, value>> items in insertion  *)
(* order; a Counter is the set of its items <<key, count>>, the keys being *)
(* the faces of positive count.                                            *)
(***************************************************************************)
EXTENDS Integers, Sequences, FiniteSets, TLC

(***************************************************************************)
(* cards.py                                                                *)
(***************************************************************************)
TWO == 2
THREE == 3
FOUR == 4
FIVE == 5
SIX == 6
SEVEN == 7
EIGHT == 8
NINE == 9
TEN == 10
JACK == 11
QUEEN == 12
KING == 13
ACE == 14

Face == TWO..ACE

SPADES == 0
HEARTS == 1
CLOVERS == 2
DIAMONDS == 3

Suit == SPADES..DIAMONDS

SetMin(S) == CHOOSE x \in S : \A y \in S : x <= y

SetMax(S) == CHOOSE x \in S : \A y \in S : x >= y

MIN_VALUE == SetMin(Face)
MAX_VALUE == SetMax(Face)

Card(face, suit) == <<face, suit>>
face_of(card) == card[1]
suit_of(card) == card[2]
value_of(card) == face_of(card)

\* Face(face.value + 1), and Face(MIN_VALUE) when that raises ValueError
get_next_face(face) == IF face + 1 \in Face THEN face + 1 ELSE MIN_VALUE

\* Face(face.value - 1), and Face(MAX_VALUE) when that raises ValueError
get_previous_face(face) == IF face - 1 \in Face THEN face - 1 ELSE MAX_VALUE

(***************************************************************************)
(* Python built-ins used by the program                                    *)
(***************************************************************************)
Range(s) == {s[i] : i \in 1..Len(s)}

\* item in list
Contains(s, x) == \E i \in 1..Len(s) : s[i] = x

\* list.count(item)
Count(s, x) == Cardinality({i \in 1..Len(s) : s[i] = x})

\* the distinct items of a list in order of first occurrence (dict key order)
RECURSIVE FirstOccurrences(_)
FirstOccurrences(s) ==
    IF s = <<>> THEN <<>>
    ELSE LET front == FirstOccurrences(SubSeq(s, 1, Len(s) - 1))
             last  == s[Len(s)]
         IN  IF Contains(front, last) THEN front ELSE Append(front, last)

\* tuple comparison a < b (lexicographic, a proper prefix is smaller)
TupleLess(a, b) ==
    \/ \E i \in 1..Len(a) :
          /\ i <= Len(b)
          /\ a[i] < b[i]
          /\ \A j \in 1..(i - 1) : a[j] = b[j]
    \/ /\ Len(a) < Len(b)
       /\ \A j \in 1..Len(a) : a[j] = b[j]

\* whether an item of key a must come before an item of key b
Precedes(a, b, reverse) == IF reverse THEN TupleLess(b, a) ELSE TupleLess(a, b)

\* one step of the stable sort: index i goes behind every index already
\* placed whose key it does not precede
InsertIdx(placed, i, keys, reverse) ==
    LET pos == Cardinality({j \in 1..Len(placed) :
                               ~Precedes(keys[i], keys[placed[j]], reverse)})
    IN  SubSeq(placed, 1, pos) \o <<i>> \o SubSeq(placed, pos + 1, Len(placed))

RECURSIVE SortIdx(_, _, _)
SortIdx(n, keys, reverse) ==
    IF n = 0 THEN <<>>
    ELSE InsertIdx(SortIdx(n - 1, keys, reverse), n, keys, reverse)

\* sorted(items, key=..., reverse=...): stable, items of equal key keep their
\* order also when reverse is set; keys[i] is the key of items[i]
Sorted(items, keys, reverse) ==
    LET idx == SortIdx(Len(items), keys, reverse)
    IN  [j \in 1..Len(items) |-> items[idx[j]]]

\* an enumeration of a set (the iteration order of a Python set)
RECURSIVE SetToSeq(_)
SetToSeq(S) ==
    IF S = {} THEN <<>>
    ELSE LET x == CHOOSE y \in S : TRUE
         IN  <<x>> \o SetToSeq(S \ {x})

(***************************************************************************)
(* cardUtils.py                                                            *)
(***************************************************************************)
\* Hand.get_faces
get_faces(hand) == [i \in 1..Len(hand) |-> face_of(hand[i])]

\* Hand.get_suits
get_suits(hand) == [i \in 1..Len(hand) |-> suit_of(hand[i])]

\* Hand.get_cards_with_face
get_cards_with_face(hand, face) == SelectSeq(hand, LAMBDA card : face_of(card) = face)

\* Hand.get_cards_with_suit
get_cards_with_suit(hand, suit) == SelectSeq(hand, LAMBDA card : suit_of(card) = suit)

\* Hand.get_groups_by_face: the items <<face, cards of that face>>, the keys
\* in order of first occurrence, the cards of a group in hand order
get_groups_by_face(hand) ==
    LET keys == FirstOccurrences(get_faces(hand))
    IN  [k \in 1..Len(keys) |-> <<keys[k], get_cards_with_face(hand, keys[k])>>]

\* Hand.get_groups_by_suit
get_groups_by_suit(hand) ==
    LET keys == FirstOccurrences(get_suits(hand))
    IN  [k \in 1..Len(keys) |-> <<keys[k], get_cards_with_suit(hand, keys[k])>>]

\* KeysOfSize with `>=` for `==`
KeysOfSize_at_least(items, frequency) ==
    LET hit == SelectSeq(items, LAMBDA item : Len(item[2]) >= frequency)
    IN  [k \in 1..Len(hit) |-> hit[k][1]]

\* the keys of the items of a dict whose value has the given length
KeysOfSize(items, frequency) ==
    LET hit == SelectSeq(items, LAMBDA item : Len(item[2]) = frequency)
    IN  [k \in 1..Len(hit) |-> hit[k][1]]

\* Hand.get_faces_with_frequency
get_faces_with_frequency(hand, frequency) ==
    KeysOfSize(get_groups_by_face(hand), frequency)

\* Hand.get_suits_with_frequency
get_suits_with_frequency(hand, frequency) ==
    KeysOfSize(get_groups_by_suit(hand), frequency)

\* starter_key without the exception for the Ace
starter_key_by_value(starter) == starter

\* the sort key of sorted_starters: the Ace counts as MIN_VALUE - 1
starter_key(starter) == IF starter # ACE THEN starter ELSE MIN_VALUE - 1

sorted_starters(starters, reverse) ==
    Sorted(starters, [i \in 1..Len(starters) |-> <<starter_key(starters[i])>>], reverse)

get_max_straight_starter(starters) ==
    LET s == sorted_starters(starters, FALSE) IN s[Len(s)]

get_min_straight_starter(starters) ==
    sorted_starters(starters, FALSE)[1]

\* is_straight_starter_greater by raw value, the Ace highest
is_straight_starter_greater_by_value(starter1, starter2) == starter1 > starter2

is_straight_starter_greater(starter1, starter2) ==
    IF starter1 = starter2 THEN FALSE
    ELSE IF starter1 # ACE /\ starter2 # ACE THEN starter1 > starter2
    ELSE starter1 # ACE

is_straight_starter_lesser(starter1, starter2) ==
    IF starter1 = starter2 THEN FALSE
    ELSE IF starter1 # ACE /\ starter2 # ACE THEN starter1 < starter2
    ELSE starter1 = ACE

RECURSIVE get_sequence_of_starter(_, _)
get_sequence_of_starter(starter, sequence_length) ==
    IF sequence_length <= 0 THEN <<>>
    ELSE <<starter>> \o get_sequence_of_starter(get_next_face(starter), sequence_length - 1)

\* the loop of get_starters_of_sequences_including_face: `left` iterations
\* remain, `starters` is the set built so far
RECURSIVE StartersLoop(_, _, _, _)
StartersLoop(starter, left, starters, invalid) ==
    IF left <= 0 THEN starters
    ELSE IF starter \in starters THEN starters
    ELSE StartersLoop(get_previous_face(starter), left - 1,
                      IF starter \notin invalid THEN starters \cup {starter} ELSE starters,
                      invalid)

get_starters_of_sequences_including_face(face, sequence_length, invalid) ==
    StartersLoop(face, sequence_length, {}, invalid)

\* get_starters_of_sequences_including_faces that loops over `faces`, not
\* over set(faces): a face held twice counts twice
get_starters_of_sequences_including_faces_per_card(faces, sequence_length, invalid) ==
    LET sets == [i \in 1..Len(faces) |->
                    get_starters_of_sequences_including_face(faces[i], sequence_length, invalid)]
        keys == UNION {sets[i] : i \in 1..Len(faces)}
    IN  {<<s, Cardinality({i \in 1..Len(faces) : s \in sets[i]})>> : s \in keys}

\* the Counter, as the set of its items <<starter, count>>: each face of
\* set(faces) adds one to every starter of its set
get_starters_of_sequences_including_faces(faces, sequence_length, invalid) ==
    LET sets == {<<f, get_starters_of_sequences_including_face(f, sequence_length, invalid)>> :
                    f \in Range(faces)}
        keys == UNION {p[2] : p \in sets}
    IN  {<<s, Cardinality({p \in sets : s \in p[2]})>> : s \in keys}

\* the keys and the values of a Counter
CounterKeys(counter) == {item[1] : item \in counter}
CounterValues(counter) == {item[2] : item \in counter}

\* what a function gives when Python raises ValueError inside it
RAISED == -1

\* max(starters.values()) raises ValueError on an empty Counter
get_most_frequent_starter_of_sequences_including_faces(faces, sequence_length, invalid) ==
    LET starters == get_starters_of_sequences_including_faces(faces, sequence_length, invalid)
    IN  IF starters = {} THEN RAISED
        ELSE LET max_frequency == SetMax(CounterValues(starters))
             IN  get_max_straight_starter(
                     SetToSeq(CounterKeys({item \in starters : item[2] = max_frequency})))

get_sequence_including_most_faces(faces, sequence_length, invalid) ==
    LET starter == get_most_frequent_starter_of_sequences_including_faces(
                       faces, sequence_length, invalid)
    IN  get_sequence_of_starter(starter, sequence_length)

\* group_item_key without the value of the highest card
group_item_key_size_only(item) == <<Len(item[2])>>

\* the key of get_group_items_by_size_and_value: (size of the group, value of
\* the first card of the group sorted from greatest to least)
group_item_key(item) ==
    LET group == item[2]
        desc  == Sorted(group, [i \in 1..Len(group) |-> <<value_of(group[i])>>], TRUE)
    IN  <<Len(group), value_of(desc[1])>>

\* get_group_items_by_size_and_value that drops reverse=
get_group_items_by_size_and_value_unreversed(face_group, reverse) ==
    Sorted(face_group,
           [k \in 1..Len(face_group) |-> group_item_key(face_group[k])],
           FALSE)

get_group_items_by_size_and_value(face_group, reverse) ==
    Sorted(face_group,
           [k \in 1..Len(face_group) |-> group_item_key(face_group[k])],
           reverse)

(***************************************************************************)
(* ranks.py                                                                *)
(***************************************************************************)
\* a validator is the record of the factory that made it and its argument
create_length_validator(required_length) ==
    [kind |-> "length", arg |-> required_length]
create_sequence_validator(invalid_starters) ==
    [kind |-> "sequence", arg |-> invalid_starters]
create_face_validator(required_faces) ==
    [kind |-> "face", arg |-> required_faces]
create_face_frequency_validator(required_frequencies) ==
    [kind |-> "face_frequency", arg |-> required_frequencies]
create_suit_frequency_validator(required_frequencies) ==
    [kind |-> "suit_frequency", arg |-> required_frequencies]

Rank(name, value, validators) ==
    [name |-> name, value |-> value, validators |-> validators]

\* Counter(attributes), then the number of items of frequency group_size
has_required_group(attributes, group_size, num_of_groups) ==
    LET num_of_valid_groups ==
            Cardinality({a \in Range(attributes) : Count(attributes, a) = group_size})
    IN  num_of_valid_groups = num_of_groups

\* what a validator gives: the strings of True and False, or "ValueError"
\* when the call raises
Bool(b) == IF b THEN "True" ELSE "False"

validate_length(cards, required_length) == Bool(Len(cards) = required_length)

\* the loop of validate_sequence
RECURSIVE SequenceLoop(_, _, _)
SequenceLoop(starter, left, faces) ==
    IF left <= 0 THEN TRUE
    ELSE IF ~Contains(faces, starter) THEN FALSE
    ELSE SequenceLoop(get_next_face(starter), left - 1, faces)

\* validate_sequence that excludes no starter
validate_sequence_no_exclusions(cards, invalid_starters) ==
    LET sequence_length == Len(cards)
        faces == get_faces(cards)
        starter == get_most_frequent_starter_of_sequences_including_faces(
                       faces, sequence_length, {})
    IN  IF starter = RAISED THEN "ValueError"
        ELSE Bool(SequenceLoop(starter, sequence_length, faces))

validate_sequence(cards, invalid_starters) ==
    LET sequence_length == Len(cards)
        faces == get_faces(cards)
        starter == get_most_frequent_starter_of_sequences_including_faces(
                       faces, sequence_length, invalid_starters)
    IN  IF starter = RAISED THEN "ValueError"
        ELSE Bool(SequenceLoop(starter, sequence_length, faces))

validate_faces(cards, required_faces) ==
    Bool(\A face \in required_faces : Contains(get_faces(cards), face))

\* required_frequencies is the dict {group size: number of groups}, as items
validate_face_frequencies(cards, required_frequencies) ==
    Bool(\A k \in 1..Len(required_frequencies) :
            has_required_group(get_faces(cards),
                               required_frequencies[k][1], required_frequencies[k][2]))

validate_suit_frequencies(cards, required_frequencies) ==
    Bool(\A k \in 1..Len(required_frequencies) :
            has_required_group(get_suits(cards),
                               required_frequencies[k][1], required_frequencies[k][2]))

\* validator(cards)
Validate(validator, cards) ==
    CASE validator.kind = "length" -> validate_length(cards, validator.arg)
      [] validator.kind = "sequence" -> validate_sequence(cards, validator.arg)
      [] validator.kind = "face" -> validate_faces(cards, validator.arg)
      [] validator.kind = "face_frequency" -> validate_face_frequencies(cards, validator.arg)
      [] validator.kind = "suit_frequency" -> validate_suit_frequencies(cards, validator.arg)

\* the loop of Rank.is_rank from validator i on: "True", "False", or
\* "ValueError" when a validator raises before one has returned False
RECURSIVE IsRankLoop(_, _, _)
IsRankLoop(validators, i, cards) ==
    IF i > Len(validators) THEN "True"
    ELSE LET outcome == Validate(validators[i], cards)
         IN  IF outcome = "True" THEN IsRankLoop(validators, i + 1, cards)
             ELSE outcome

is_rank(rank, cards) == IsRankLoop(rank.validators, 1, cards)

REQUIRED_LENGTH == 5
INVALID_STRAIGHT_STARTERS == {JACK, QUEEN, KING}
ROYAL_FACES == {TEN, JACK, QUEEN, KING, ACE}

NULL_RANK == Rank("None", 0, <<>>)

HIGH == Rank("High Card", 1, <<create_length_validator(REQUIRED_LENGTH)>>)

PAIR == Rank("Pair", 2,
    <<create_length_validator(REQUIRED_LENGTH),
      create_face_frequency_validator(<< <<2, 1>> >>)>>)

TWO_PAIR == Rank("Two Pair", 3,
    <<create_length_validator(REQUIRED_LENGTH),
      create_face_frequency_validator(<< <<2, 2>> >>)>>)

THREE_OF_A_KIND == Rank("Three of a Kind", 4,
    <<create_length_validator(REQUIRED_LENGTH),
      create_face_frequency_validator(<< <<3, 1>> >>)>>)

\* STRAIGHT with the sequence validator ahead of the length validator
STRAIGHT_sequence_first == Rank("Straight", 5,
    <<create_sequence_validator(INVALID_STRAIGHT_STARTERS),
      create_length_validator(REQUIRED_LENGTH)>>)

STRAIGHT == Rank("Straight", 5,
    <<create_length_validator(REQUIRED_LENGTH),
      create_sequence_validator(INVALID_STRAIGHT_STARTERS)>>)

FLUSH == Rank("Flush", 6,
    <<create_length_validator(REQUIRED_LENGTH),
      create_suit_frequency_validator(<< <<REQUIRED_LENGTH, 1>> >>)>>)

FULL_HOUSE == Rank("Full House", 7,
    <<create_length_validator(REQUIRED_LENGTH),
      create_face_frequency_validator(<< <<3, 1>>, <<2, 1>> >>)>>)

FOUR_OF_A_KIND == Rank("Four of a Kind", 8,
    <<create_length_validator(REQUIRED_LENGTH),
      create_face_frequency_validator(<< <<4, 1>> >>)>>)

STRAIGHT_FLUSH == Rank("Straight Flush", 9,
    <<create_length_validator(REQUIRED_LENGTH),
      create_sequence_validator(INVALID_STRAIGHT_STARTERS),
      create_suit_frequency_validator(<< <<REQUIRED_LENGTH, 1>> >>)>>)

\* ROYAL_FLUSH without the face validator
ROYAL_FLUSH_any_faces == Rank("Royal Flush", 10,
    <<create_length_validator(REQUIRED_LENGTH),
      create_sequence_validator(INVALID_STRAIGHT_STARTERS),
      create_suit_frequency_validator(<< <<REQUIRED_LENGTH, 1>> >>)>>)

ROYAL_FLUSH == Rank("Royal Flush", 10,
    <<create_length_validator(REQUIRED_LENGTH),
      create_sequence_validator(INVALID_STRAIGHT_STARTERS),
      create_suit_frequency_validator(<< <<REQUIRED_LENGTH, 1>> >>),
      create_face_validator(ROYAL_FACES)>>)

DEFAULT_RANKS ==
    <<ROYAL_FLUSH, STRAIGHT_FLUSH, FOUR_OF_A_KIND, FULL_HOUSE, FLUSH,
      STRAIGHT, THREE_OF_A_KIND, TWO_PAIR, PAIR, HIGH>>

\* what get_rank gives when a validator raises: no rank is returned
RAISED_RANK == Rank("ValueError", RAISED, <<>>)

\* the loop of get_rank without the return inside it: the last candidate the
\* hand satisfies is the one returned
RECURSIVE GetRankLoop_last_satisfied(_, _, _)
GetRankLoop_last_satisfied(ranks, i, cards) ==
    IF i > Len(ranks) THEN NULL_RANK
    ELSE LET later == GetRankLoop_last_satisfied(ranks, i + 1, cards)
         IN  IF later # NULL_RANK THEN later
             ELSE IF is_rank(ranks[i], cards) = "True" THEN ranks[i]
             ELSE NULL_RANK

\* the loop of get_rank from candidate i on
RECURSIVE GetRankLoop(_, _, _)
GetRankLoop(ranks, i, cards) ==
    IF i > Len(ranks) THEN NULL_RANK
    ELSE LET outcome == is_rank(ranks[i], cards)
         IN  IF outcome = "ValueError" THEN RAISED_RANK
             ELSE IF outcome = "True" THEN ranks[i]
             ELSE GetRankLoop(ranks, i + 1, cards)

\* get_rank that returns the satisfied candidate of the highest value
get_rank_highest(cards, ranks_given, ranks) ==
    LET used == IF ranks_given /\ Len(ranks) > 0 THEN ranks ELSE DEFAULT_RANKS
        hits == {i \in 1..Len(used) : is_rank(used[i], cards) = "True"}
    IN  IF hits = {} THEN NULL_RANK
        ELSE used[CHOOSE i \in hits : \A j \in hits : used[i].value >= used[j].value]

\* get_rank(cards, ranks=...): ranks_given is FALSE when the keyword is left
\* out (None); `ranks or DEFAULT_RANKS` also replaces an empty sequence
get_rank(cards, ranks_given, ranks) ==
    LET used == IF ranks_given /\ Len(ranks) > 0 THEN ranks ELSE DEFAULT_RANKS
    IN  GetRankLoop(used, 1, cards)

\* get_rank(cards)
classify(cards) == get_rank(cards, FALSE, <<>>)

(***************************************************************************)
(* pokerLogic.py                                                           *)
(***************************************************************************)
GREATER == 1
EQUAL == 0
LESSER == -1

FACE_FREQUENCY_RANKS == <<HIGH, PAIR, TWO_PAIR, THREE_OF_A_KIND, FULL_HOUSE, FOUR_OF_A_KIND>>
SEQUENTIAL_RANKS == <<STRAIGHT, STRAIGHT_FLUSH, ROYAL_FLUSH>>
SUIT_FREQUENCY_RANKS == <<FLUSH>>

\* rank in ranks: Rank.__eq__ compares the values
RankIn(rank, ranks) == \E i \in 1..Len(ranks) : ranks[i].value = rank.value

\* compare_group_items with `>=` for `>` on the faces
compare_group_items_ge(group_item1, group_item2) ==
    LET face1 == group_item1[1]
        group1 == group_item1[2]
        face2 == group_item2[1]
        group2 == group_item2[2]
    IN  IF Len(group1) > Len(group2) \/ (Len(group1) = Len(group2) /\ face1 >= face2)
        THEN GREATER
        ELSE IF Len(group1) < Len(group2) \/ (Len(group1) = Len(group2) /\ face1 < face2)
        THEN LESSER
        ELSE EQUAL

compare_group_items(group_item1, group_item2) ==
    LET face1 == group_item1[1]
        group1 == group_item1[2]
        face2 == group_item2[1]
        group2 == group_item2[2]
    IN  IF Len(group1) > Len(group2) \/ (Len(group1) = Len(group2) /\ face1 > face2)
        THEN GREATER
        ELSE IF Len(group1) < Len(group2) \/ (Len(group1) = Len(group2) /\ face1 < face2)
        THEN LESSER
        ELSE EQUAL

\* compare_length with `>=` for `>`
compare_length_ge(iterable1, iterable2) ==
    IF Len(iterable1) >= Len(iterable2) THEN GREATER
    ELSE IF Len(iterable1) < Len(iterable2) THEN LESSER
    ELSE EQUAL

compare_length(iterable1, iterable2) ==
    IF Len(iterable1) > Len(iterable2) THEN GREATER
    ELSE IF Len(iterable1) < Len(iterable2) THEN LESSER
    ELSE EQUAL

\* the loop of compare_by_face_frequency over zip(inc_items, cha_items)
RECURSIVE GroupMatchUpLoop(_, _, _)
GroupMatchUpLoop(inc_items, cha_items, i) ==
    IF i > Len(inc_items) \/ i > Len(cha_items)
    THEN compare_length(inc_items, cha_items)
    ELSE LET result == compare_group_items(inc_items[i], cha_items[i])
         IN  IF result # EQUAL THEN result
             ELSE GroupMatchUpLoop(inc_items, cha_items, i + 1)

compare_by_face_frequency(incumbent_hand, challenger_hand) ==
    LET incumbent_groups == get_groups_by_face(incumbent_hand)
        challenger_groups == get_groups_by_face(challenger_hand)
    IN  GroupMatchUpLoop(get_group_items_by_size_and_value(incumbent_groups, TRUE),
                         get_group_items_by_size_and_value(challenger_groups, TRUE), 1)

\* compare_by_straight_starter on the raw values of the starters
compare_by_straight_starter_raw(incumbent_hand, challenger_hand) ==
    LET inc_starter == get_most_frequent_starter_of_sequences_including_faces(
                           get_faces(incumbent_hand), REQUIRED_LENGTH,
                           INVALID_STRAIGHT_STARTERS)
        cha_starter == get_most_frequent_starter_of_sequences_including_faces(
                           get_faces(challenger_hand), REQUIRED_LENGTH,
                           INVALID_STRAIGHT_STARTERS)
    IN  IF inc_starter = cha_starter THEN EQUAL
        ELSE IF inc_starter > cha_starter THEN GREATER
        ELSE LESSER

compare_by_straight_starter(incumbent_hand, challenger_hand) ==
    LET inc_starter == get_most_frequent_starter_of_sequences_including_faces(
                           get_faces(incumbent_hand), REQUIRED_LENGTH,
                           INVALID_STRAIGHT_STARTERS)
        cha_starter == get_most_frequent_starter_of_sequences_including_faces(
                           get_faces(challenger_hand), REQUIRED_LENGTH,
                           INVALID_STRAIGHT_STARTERS)
    IN  IF inc_starter = cha_starter THEN EQUAL
        ELSE IF is_straight_starter_greater(inc_starter, cha_starter) THEN GREATER
        ELSE LESSER

\* sorted(hand) without reverse=True
sorted_cards_ascending(hand, reverse) ==
    Sorted(hand, [i \in 1..Len(hand) |-> <<value_of(hand[i])>>], FALSE)

\* sorted(hand, reverse=True): Card.__lt__ compares the values
sorted_cards(hand, reverse) ==
    Sorted(hand, [i \in 1..Len(hand) |-> <<value_of(hand[i])>>], reverse)

\* the loop of compare_by_value over zip(sorted_incumbent, sorted_challenger)
RECURSIVE ValueLoop(_, _, _)
ValueLoop(sorted_incumbent, sorted_challenger, i) ==
    IF i > Len(sorted_incumbent) \/ i > Len(sorted_challenger)
    THEN compare_length(sorted_incumbent, sorted_challenger)
    ELSE IF value_of(sorted_incumbent[i]) > value_of(sorted_challenger[i]) THEN GREATER
    ELSE IF value_of(sorted_incumbent[i]) < value_of(sorted_challenger[i]) THEN LESSER
    ELSE ValueLoop(sorted_incumbent, sorted_challenger, i + 1)

compare_by_value(incumbent_hand, challenger_hand) ==
    ValueLoop(sorted_cards(incumbent_hand, TRUE), sorted_cards(challenger_hand, TRUE), 1)

\* compare_hands without the comparison of the ranks
compare_hands_tie_break_only(incumbent_hand, challenger_hand) ==
    LET incumbent_rank == classify(incumbent_hand)
    IN  IF RankIn(incumbent_rank, FACE_FREQUENCY_RANKS)
        THEN compare_by_face_frequency(incumbent_hand, challenger_hand)
        ELSE IF RankIn(incumbent_rank, SEQUENTIAL_RANKS)
        THEN compare_by_straight_starter(incumbent_hand, challenger_hand)
        ELSE compare_by_value(incumbent_hand, challenger_hand)

compare_hands(incumbent_hand, challenger_hand) ==
    LET incumbent_rank == classify(incumbent_hand)
        challenger_rank == classify(challenger_hand)
    IN  IF incumbent_rank.value > challenger_rank.value THEN GREATER
        ELSE IF incumbent_rank.value < challenger_rank.value THEN LESSER
        ELSE IF RankIn(incumbent_rank, FACE_FREQUENCY_RANKS)
        THEN compare_by_face_frequency(incumbent_hand, challenger_hand)
        ELSE IF RankIn(incumbent_rank, SEQUENTIAL_RANKS)
        THEN compare_by_straight_starter(incumbent_hand, challenger_hand)
        ELSE compare_by_value(incumbent_hand, challenger_hand)

(***************************************************************************)
(* game.py                                                                 *)
(***************************************************************************)
MAX_NUM_OF_DISCARDS == 3
MIN_FREQUENCY_TO_KEEP == 2
NUM_OF_PLAYERS == 4
NUM_OF_ROUNDS == 2
MAX_HAND_LENGTH == 5

\* cardUtils.get_first_cards_with_faces: the first card of each of the faces
RECURSIVE FirstCardsLoop(_, _, _, _)
FirstCardsLoop(cards, i, target_faces, used_faces) ==
    IF i > Len(cards) THEN <<>>
    ELSE IF Contains(target_faces, face_of(cards[i])) /\ face_of(cards[i]) \notin used_faces
         THEN <<cards[i]>> \o FirstCardsLoop(cards, i + 1, target_faces,
                                              used_faces \cup {face_of(cards[i])})
         ELSE FirstCardsLoop(cards, i + 1, target_faces, used_faces)

get_first_cards_with_faces(cards, target_faces) == FirstCardsLoop(cards, 1, target_faces, {})

\* the keeper function create_sequence_target_finder returns
get_best_sequence_targets(cards, sequence_length, invalid_starters) ==
    LET target_faces == get_sequence_including_most_faces(
                            get_faces(cards), sequence_length, invalid_starters)
    IN  get_first_cards_with_faces(cards, target_faces)

\* the loop of get_face_frequency_targets over the sorted group items: the
\* groups are kept up to the first one below the minimum frequency
RECURSIVE FrequencyTargetsLoop(_, _, _)
FrequencyTargetsLoop(items, i, min_frequency) ==
    IF i > Len(items) THEN <<>>
    ELSE IF Len(items[i][2]) >= min_frequency
         THEN items[i][2] \o FrequencyTargetsLoop(items, i + 1, min_frequency)
         ELSE <<>>

\* the keeper function create_face_frequency_target_finder returns
get_face_frequency_targets(cards, min_frequency) ==
    FrequencyTargetsLoop(
        get_group_items_by_size_and_value(get_groups_by_face(cards), TRUE), 1, min_frequency)

\* the cards of the greatest suit group item
get_most_frequent_suit_targets(cards) ==
    get_group_items_by_size_and_value(get_groups_by_suit(cards), TRUE)[1][2]

\* one pass of the loop of get_targets_from_user in which the user selects a
\* card: a marked card is unmarked, an unmarked one is marked while fewer
\* than max_discards are
select_target(marked, card, max_discards) ==
    IF card \in marked THEN marked \ {card}
    ELSE IF Cardinality(marked) < max_discards THEN marked \cup {card}
    ELSE marked

\* what get_targets_from_user returns: the cards that are not marked
get_targets_from_user(cards, marked) == SelectSeq(cards, LAMBDA card : card \notin marked)

\* the discarders: the number of discards allowed and the keeper function
Discarder(max_discards, get_keeper_func) ==
    [max_discards |-> max_discards, get_keeper_func |-> get_keeper_func]

FREQUENCY_DISCARDER == Discarder(MAX_NUM_OF_DISCARDS, "face frequency")
FLUSH_DISCARDER == Discarder(MAX_NUM_OF_DISCARDS, "most frequent suit")
STRAIGHT_DISCARDER == Discarder(MAX_NUM_OF_DISCARDS, "sequence")
USER_DISCARDER == Discarder(MAX_NUM_OF_DISCARDS, "user")

\* discarder.get_keeper_func(cards); `marked` is what the user has marked
get_keeper_cards(discarder, cards, marked) ==
    CASE discarder.get_keeper_func = "face frequency" ->
             get_face_frequency_targets(cards, MIN_FREQUENCY_TO_KEEP)
      [] discarder.get_keeper_func = "most frequent suit" ->
             get_most_frequent_suit_targets(cards)
      [] discarder.get_keeper_func = "sequence" ->
             get_best_sequence_targets(cards, REQUIRED_LENGTH, INVALID_STRAIGHT_STARTERS)
      [] discarder.get_keeper_func = "user" ->
             get_targets_from_user(cards, marked)

\* Discarder.get_irrelevant_cards, given what the keeper function returned
get_irrelevant_cards(keeper_cards, cards) ==
    SelectSeq(cards, LAMBDA card : ~Contains(keeper_cards, card))

\* get_discards without the limit of max_discards
get_discards_unlimited(discarder, keeper_cards, cards) ==
    get_irrelevant_cards(keeper_cards, cards)

\* Discarder.get_discards: irrelevant_cards[:self.max_discards]
get_discards(discarder, keeper_cards, cards) ==
    LET irrelevant_cards == get_irrelevant_cards(keeper_cards, cards)
    IN  SubSeq(irrelevant_cards, 1,
               IF Len(irrelevant_cards) < discarder.max_discards
               THEN Len(irrelevant_cards) ELSE discarder.max_discards)

\* Player.remove_card: list.remove drops the first card equal to the card
remove_card(hand, card) ==
    LET at == SetMin({i \in 1..Len(hand) : hand[i] = card})
    IN  SubSeq(hand, 1, at - 1) \o SubSeq(hand, at + 1, Len(hand))

\* the loop of Player.discard
RECURSIVE DiscardLoop(_, _, _)
DiscardLoop(hand, cards_to_be_discarded, i) ==
    IF i > Len(cards_to_be_discarded) THEN hand
    ELSE DiscardLoop(remove_card(hand, cards_to_be_discarded[i]), cards_to_be_discarded, i + 1)

Players == 1..NUM_OF_PLAYERS
DISCARDERS == {FLUSH_DISCARDER, STRAIGHT_DISCARDER, FREQUENCY_DISCARDER}

\* the deck as initialize_deck builds it before the shuffle
NewDeck ==
    [k \in 1..(Cardinality(Face) * Cardinality(Suit)) |->
        Card(MIN_VALUE + ((k - 1) \div Cardinality(Suit)), (k - 1) % Cardinality(Suit))]

\* fill_player_hand that takes the top card and leaves it on the deck
RECURSIVE fill_player_hand_peek(_, _)
fill_player_hand_peek(hand, cards) ==
    IF Len(hand) >= MAX_HAND_LENGTH THEN [hand |-> hand, deck |-> cards, raised |-> FALSE]
    ELSE IF cards = <<>> THEN [hand |-> hand, deck |-> cards, raised |-> TRUE]
    ELSE fill_player_hand_peek(Append(hand, cards[Len(cards)]), cards)

\* Game.fill_player_hand: the hand and the deck after the loop; deck.pop()
\* takes the last card and raises IndexError on the empty deck
RECURSIVE fill_player_hand(_, _)
fill_player_hand(hand, cards) ==
    IF Len(hand) >= MAX_HAND_LENGTH THEN [hand |-> hand, deck |-> cards, raised |-> FALSE]
    ELSE IF cards = <<>> THEN [hand |-> hand, deck |-> cards, raised |-> TRUE]
    ELSE fill_player_hand(Append(hand, cards[Len(cards)]), SubSeq(cards, 1, Len(cards) - 1))

\* Game.fill_all_player_hands: the players in order, up to an IndexError
RECURSIVE FillAllLoop(_, _, _)
FillAllLoop(all_hands, cards, i) ==
    IF i > Len(all_hands) THEN [hands |-> all_hands, deck |-> cards, raised |-> FALSE]
    ELSE LET filled == fill_player_hand(all_hands[i], cards)
         IN  IF filled.raised
             THEN [hands |-> [all_hands EXCEPT ![i] = filled.hand],
                   deck |-> filled.deck, raised |-> TRUE]
             ELSE FillAllLoop([all_hands EXCEPT ![i] = filled.hand], filled.deck, i + 1)

\* find_winners that keeps the incumbents a stronger challenger has beaten
RECURSIVE find_winners_keep_beaten(_, _, _, _)
find_winners_keep_beaten(all_hands, i, key_incumbent, incumbents) ==
    IF i > Len(all_hands) THEN incumbents
    ELSE LET outcome == compare_hands(all_hands[key_incumbent], all_hands[i])
         IN  IF outcome = EQUAL
             THEN find_winners_keep_beaten(all_hands, i + 1, key_incumbent, Append(incumbents, i))
             ELSE IF outcome = LESSER
             THEN find_winners_keep_beaten(all_hands, i + 1, i, Append(incumbents, i))
             ELSE find_winners_keep_beaten(all_hands, i + 1, key_incumbent, incumbents)

\* the loop of Game.find_winners from challenger i on; players are numbered
\* by their place in Game.players
RECURSIVE WinnersLoop(_, _, _, _)
WinnersLoop(all_hands, i, key_incumbent, incumbents) ==
    IF i > Len(all_hands) THEN incumbents
    ELSE LET outcome == compare_hands(all_hands[key_incumbent], all_hands[i])
         IN  IF outcome = EQUAL
             THEN WinnersLoop(all_hands, i + 1, key_incumbent, Append(incumbents, i))
             ELSE IF outcome = LESSER
             THEN WinnersLoop(all_hands, i + 1, i, <<i>>)
             ELSE WinnersLoop(all_hands, i + 1, key_incumbent, incumbents)

\* Game.find_winners
find_winners(all_hands) == WinnersLoop(all_hands, 2, 1, <<1>>)

(***************************************************************************)
(* The hands the operations are applied to                                 *)
(***************************************************************************)
\* the faces used to build hands of repeated faces are the first PoolSize of
\* PoolOrder
PoolSize == 4
PoolOrder == <<ACE, KING, QUEEN, TWO, NINE, THREE, JACK, FIVE, TEN, FOUR, SEVEN, SIX, EIGHT>>
PoolFaces == {PoolOrder[i] : i \in 1..PoolSize}

\* the longest hand built from the pool
MaxLen == 6

\* the number of arrangements (order of the cards, first suit) of a hand
Variants == 2

\* the candidate sequences passed to get_rank hold at most MaxRanks ranks
MaxRanks == 2

\* the non-decreasing lists of n faces of S whose first face is at least lo
RECURSIVE FaceLists(_, _, _)
FaceLists(n, S, lo) ==
    IF n = 0 THEN {<<>>}
    ELSE UNION {{<<f>> \o rest : rest \in FaceLists(n - 1, S, f)} : f \in {g \in S : g >= lo}}

\* the cards of the listed faces: all Spades, or the suits in rotation
SuitedHand(faces, flush) ==
    [i \in 1..Len(faces) |-> Card(faces[i], IF flush THEN SPADES ELSE (i - 1) % Cardinality(Suit))]

IsDistinct(hand) == Cardinality(Range(hand)) = Len(hand)

\* arrangement v of a hand: the suits moved on by v, the cards turned round
\* when v is odd and moved v \div 2 places
Arrange(hand, v) ==
    LET n == Len(hand)
        at(i) == IF v % 2 = 1 THEN n + 1 - i ELSE i
        from(i) == ((at(i) - 1 + (v \div 2)) % n) + 1
    IN  [i \in 1..n |-> Card(face_of(hand[from(i)]), (suit_of(hand[from(i)]) + v) % Cardinality(Suit))]

\* every 5-card hand of a standard deck up to suits and order: any five faces
\* with the suits in rotation, five different faces in one suit
DeckHands ==
    {SuitedHand(faces, FALSE) : faces \in {l \in FaceLists(REQUIRED_LENGTH, Face, MIN_VALUE) :
                                              \A f \in Face : Count(l, f) <= 4}}
    \cup {SuitedHand(faces, TRUE) : faces \in {l \in FaceLists(REQUIRED_LENGTH, Face, MIN_VALUE) :
                                                  \A f \in Face : Count(l, f) <= 1}}

\* the hands of 0..MaxLen cards over the pool, repeated cards included
PoolHands ==
    UNION {{SuitedHand(faces, flush) : faces \in FaceLists(n, PoolFaces, MIN_VALUE),
                                       flush \in BOOLEAN} : n \in 0..MaxLen}

\* the five cyclically consecutive faces from every starter, mixed and suited
RunHands ==
    {SuitedHand(get_sequence_of_starter(s, REQUIRED_LENGTH), flush) :
        s \in Face, flush \in BOOLEAN}

\* four cyclically consecutive faces from every starter and the face after
\* the gap that follows them (no run of five), mixed and suited
GapHands ==
    {SuitedHand(get_sequence_of_starter(s, REQUIRED_LENGTH - 1)
                \o <<get_next_face(get_next_face(
                       get_sequence_of_starter(s, REQUIRED_LENGTH - 1)[REQUIRED_LENGTH - 1]))>>,
                flush) :
        s \in Face, flush \in BOOLEAN}

\* the hands of the worked examples: two full houses, two two-pairs, two flushes
KKK22 == <<Card(KING, SPADES), Card(KING, HEARTS), Card(KING, CLOVERS),
           Card(TWO, SPADES), Card(TWO, HEARTS)>>
QQQAA == <<Card(QUEEN, SPADES), Card(QUEEN, HEARTS), Card(QUEEN, CLOVERS),
           Card(ACE, SPADES), Card(ACE, HEARTS)>>
AAKK2 == <<Card(ACE, SPADES), Card(ACE, HEARTS), Card(KING, SPADES),
           Card(KING, HEARTS), Card(TWO, CLOVERS)>>
AAQQ9 == <<Card(ACE, CLOVERS), Card(ACE, DIAMONDS), Card(QUEEN, SPADES),
           Card(QUEEN, HEARTS), Card(NINE, CLOVERS)>>
SpadeFlush == <<Card(TWO, SPADES), Card(FIVE, SPADES), Card(SEVEN, SPADES),
                Card(NINE, SPADES), Card(KING, SPADES)>>
HeartFlush == <<Card(THREE, HEARTS), Card(FIVE, HEARTS), Card(SEVEN, HEARTS),
                Card(NINE, HEARTS), Card(KING, HEARTS)>>
ExampleHands == {KKK22, QQQAA, AAKK2, AAQQ9, SpadeFlush, HeartFlush}

\* the first cards of the example hands: the hands of fewer than 5 cards
ShortHands == {SubSeq(h, 1, n) : h \in ExampleHands, n \in 0..(REQUIRED_LENGTH - 1)}

\* the lists of faces passed to the starter functions hold at most MaxFaces
\* faces, or are the faces of a 5-card hand
MaxFaces == 2

RECURSIVE AllFaceLists(_)
AllFaceLists(n) ==
    IF n = 0 THEN {<<>>}
    ELSE LET shorter == AllFaceLists(n - 1)
         IN  shorter \cup {Append(l, f) : l \in shorter, f \in Face}

StarterLists ==
    AllFaceLists(MaxFaces)
    \cup {get_faces(h) : h \in RunHands \cup GapHands \cup ExampleHands}

\* the sets of excluded starters
ExcludedSets == {{}, INVALID_STRAIGHT_STARTERS, {ACE, KING}, Face}

\* the shuffles of the deck: shuffle n puts card (stride * i + n) of the new
\* deck at place i, for the n-th of the strides; Shuffles of them are used
Shuffles == 2
ShuffleStrides == <<5, 3, 1, 9, 7, 11, 15, 17>>

Shuffled(cards, n) ==
    [i \in 1..Len(cards) |-> cards[((ShuffleStrides[n] * i + n) % Len(cards)) + 1]]

ShuffledDecks == {Shuffled(NewDeck, n) : n \in 1..Shuffles}

\* the hands of the players whose winners are found: the first WinnerShapes
\* of the shapes below (faces; one suit or the suits in rotation), each in
\* the four arrangements that start at each of the suits
WinnerShapes == 4
WinnerShapeList ==
    <<[faces |-> <<KING, QUEEN, TEN, SEVEN, THREE>>, flush |-> FALSE],
      [faces |-> <<NINE, NINE, ACE, FOUR, TWO>>, flush |-> FALSE],
      [faces |-> <<KING, QUEEN, TEN, SEVEN, THREE>>, flush |-> TRUE],
      [faces |-> <<KING, QUEEN, TEN, SEVEN, FOUR>>, flush |-> FALSE],
      [faces |-> <<SIX, FIVE, FOUR, THREE, TWO>>, flush |-> FALSE],
      [faces |-> <<NINE, NINE, ACE, FOUR, THREE>>, flush |-> FALSE]>>

WinnerHands ==
    {Arrange(SuitedHand(WinnerShapeList[k].faces, WinnerShapeList[k].flush), v) :
        k \in 1..WinnerShapes, v \in 0..(Cardinality(Suit) - 1)}

\* the hands two of which are compared: 5 different cards each
CompareHands ==
    {h \in PoolHands : Len(h) = REQUIRED_LENGTH /\ IsDistinct(h)}
    \cup RunHands \cup GapHands \cup ExampleHands

\* the catalog rank of a value
RankOfValue(v) == DEFAULT_RANKS[Len(DEFAULT_RANKS) + 1 - v]

\* the sequences of at most n catalog values, in any order
RECURSIVE RankLists(_)
RankLists(n) ==
    IF n = 0 THEN {<<>>}
    ELSE LET shorter == RankLists(n - 1)
         IN  shorter \cup {Append(l, v) : l \in shorter, v \in 1..Len(DEFAULT_RANKS)}

(***************************************************************************)
(* State                                                                   *)
(***************************************************************************)
VARIABLES
    pc,               \* "input", or the operation that has been applied
    incumbent_hand,   \* the hand (the first hand of a comparison)
    challenger_hand,  \* the second hand of a comparison
    ranks_given,      \* whether get_rank is passed ranks=...
    ranks,            \* the values of the candidate ranks passed
    rank,             \* the value of the rank get_rank returned for incumbent_hand
    challenger_rank,  \* the value of the rank of challenger_hand
    result,           \* compare_hands(incumbent_hand, challenger_hand)
    reverse_result,   \* compare_hands(challenger_hand, incumbent_hand)
    faces_with,       \* frequency n |-> get_faces_with_frequency(n)
    suits_with,       \* frequency n |-> get_suits_with_frequency(n)
    accepted,         \* what the Straight's sequence validator returned for the hand
    reverse,          \* the reverse= argument of a sort
    face_group_items, \* get_group_items_by_size_and_value(hand.get_groups_by_face())
    suit_group_items, \* get_group_items_by_size_and_value(hand.get_groups_by_suit())
    faces,            \* a list of faces (of starters, when it is sorted)
    sequence_length,  \* the sequence_length argument
    invalid,          \* the invalid argument: the excluded starters
    starters,         \* the Counter get_starters_of_sequences_including_faces returned
    most_frequent,    \* get_most_frequent_starter_of_sequences_including_faces
    sorted_result,    \* sorted_starters(faces, reverse=reverse)
    max_starter,      \* get_max_straight_starter(faces)
    min_starter,      \* get_min_straight_starter(faces)
    greater,          \* is_straight_starter_greater of faces[1], faces[2], both ways round
    lesser,           \* is_straight_starter_lesser of faces[1], faces[2], both ways round
    deck,             \* Game.deck: the last card is the next one popped
    hands,            \* player i |-> Game.players[i].hand
    discarders,       \* player i |-> the name of Game.players[i].discarder
    round,            \* the rounds of execute_rounds that are over
    turn,             \* the player whose step is next
    chosen,           \* get_targets_from_user: the cards marked so far
    kept,             \* the cards the keeper function returned in the last discard
    removed,          \* the cards the last discard removed from the hand
    discarded,        \* history: every card discarded since the deck was built
    winners           \* the players find_winners returned, in order

handVars == <<incumbent_hand, challenger_hand, ranks_given, ranks, rank,
              challenger_rank, result, reverse_result, faces_with, suits_with>>
sortVars == <<accepted, reverse, face_group_items, suit_group_items>>
starterVars == <<faces, sequence_length, invalid, starters, most_frequent, sorted_result,
                 max_starter, min_starter, greater, lesser>>
gameVars == <<deck, hands, discarders, round, turn, chosen, kept, removed,
              discarded, winners>>

vars == <<pc, handVars, sortVars, starterVars, gameVars>>

NoResults ==
    /\ rank = RAISED
    /\ challenger_rank = RAISED
    /\ result = EQUAL
    /\ reverse_result = EQUAL
    /\ faces_with = <<>>
    /\ suits_with = <<>>
    /\ accepted = "None"
    /\ reverse = FALSE
    /\ face_group_items = <<>>
    /\ suit_group_items = <<>>

\* no list of faces has been passed
NoStarters ==
    /\ faces = <<>>
    /\ sequence_length = 0
    /\ invalid = {}
    /\ starters = {}
    /\ most_frequent = RAISED
    /\ sorted_result = <<>>
    /\ max_starter = RAISED
    /\ min_starter = RAISED
    /\ greater = <<>>
    /\ lesser = <<>>

\* no game has been constructed
NoGame ==
    /\ deck = <<>>
    /\ hands = <<>>
    /\ discarders = <<>>
    /\ round = 0
    /\ turn = 0
    /\ chosen = {}
    /\ kept = <<>>
    /\ removed = <<>>
    /\ discarded = {}
    /\ winners = <<>>

(***************************************************************************)
(* One hand: classification with the default catalog, frequency lookups    *)
(***************************************************************************)
InitHand ==
    /\ pc = "input"
    /\ \E h \in DeckHands \cup PoolHands, v \in 0..(Variants - 1) :
          incumbent_hand = Arrange(h, v)
    /\ challenger_hand = <<>>
    /\ ranks_given = FALSE
    /\ ranks = <<>>
    /\ NoResults
    /\ NoStarters
    /\ NoGame

\* rank = get_rank(hand)
Classify ==
    /\ pc = "input"
    /\ pc' = "classified"
    /\ rank' = classify(incumbent_hand).value
    /\ UNCHANGED <<incumbent_hand, challenger_hand, ranks_given, ranks,
                   challenger_rank, result, reverse_result, faces_with, suits_with>>
    /\ UNCHANGED <<sortVars, starterVars, gameVars>>

\* hand.get_faces_with_frequency(n) and hand.get_suits_with_frequency(n) for
\* every n from 1 to the length of the hand
GetWithFrequency ==
    /\ pc = "input"
    /\ pc' = "frequencies"
    /\ faces_with' = [n \in 1..Len(incumbent_hand) |->
                         get_faces_with_frequency(incumbent_hand, n)]
    /\ suits_with' = [n \in 1..Len(incumbent_hand) |->
                         get_suits_with_frequency(incumbent_hand, n)]
    /\ UNCHANGED <<incumbent_hand, challenger_hand, ranks_given, ranks, rank,
                   challenger_rank, result, reverse_result>>
    /\ UNCHANGED <<sortVars, starterVars, gameVars>>

\* accepted = the sequence validator of the Straight applied to the hand
ValidateSequence ==
    /\ pc = "input"
    /\ pc' = "validated"
    /\ accepted' = Validate(create_sequence_validator(INVALID_STRAIGHT_STARTERS),
                            incumbent_hand)
    /\ UNCHANGED <<handVars, reverse, face_group_items, suit_group_items,
                   starterVars, gameVars>>

\* get_group_items_by_size_and_value(groups, reverse=True) of the face groups
\* and of the suit groups of the hand, as every caller calls it
GroupItems ==
    /\ pc = "input"
    /\ pc' = "grouped"
    /\ reverse' = TRUE
    /\ face_group_items' =
           get_group_items_by_size_and_value(get_groups_by_face(incumbent_hand), TRUE)
    /\ suit_group_items' =
           get_group_items_by_size_and_value(get_groups_by_suit(incumbent_hand), TRUE)
    /\ UNCHANGED <<handVars, accepted, starterVars, gameVars>>

NextHand == Classify \/ GetWithFrequency \/ ValidateSequence \/ GroupItems

SpecHand == InitHand /\ [][NextHand]_vars

(***************************************************************************)
(* One hand and a supplied candidate sequence                              *)
(***************************************************************************)
InitRanks ==
    /\ pc = "input"
    /\ \E h \in RunHands \cup ExampleHands \cup ShortHands : incumbent_hand = h
    /\ challenger_hand = <<>>
    /\ ranks_given \in BOOLEAN
    /\ ranks \in RankLists(MaxRanks)
    /\ ranks_given = FALSE => ranks = <<>>
    /\ NoResults
    /\ NoStarters
    /\ NoGame

\* rank = get_rank(hand, ranks=ranks), or get_rank(hand)
GetRank ==
    /\ pc = "input"
    /\ pc' = "ranked"
    /\ rank' = get_rank(incumbent_hand, ranks_given,
                        [i \in 1..Len(ranks) |-> RankOfValue(ranks[i])]).value
    /\ UNCHANGED <<incumbent_hand, challenger_hand, ranks_given, ranks,
                   challenger_rank, result, reverse_result, faces_with, suits_with>>
    /\ UNCHANGED <<sortVars, starterVars, gameVars>>

NextRanks == GetRank

SpecRanks == InitRanks /\ [][NextRanks]_vars

(***************************************************************************)
(* Two hands: comparison in both directions                                *)
(***************************************************************************)
Init ==
    /\ pc = "input"
    /\ \E a \in CompareHands, v \in 0..(Variants - 1) : incumbent_hand = Arrange(a, v)
    /\ challenger_hand \in CompareHands
    /\ ranks_given = FALSE
    /\ ranks = <<>>
    /\ NoResults
    /\ NoStarters
    /\ NoGame

\* result = compare_hands(incumbent, challenger), and the same the other way
\* round; the ranks are those compare_hands computes
Compare ==
    /\ pc = "input"
    /\ pc' = "compared"
    /\ rank' = classify(incumbent_hand).value
    /\ challenger_rank' = classify(challenger_hand).value
    /\ result' = compare_hands(incumbent_hand, challenger_hand)
    /\ reverse_result' = compare_hands(challenger_hand, incumbent_hand)
    /\ UNCHANGED <<incumbent_hand, challenger_hand, ranks_given, ranks,
                   faces_with, suits_with>>
    /\ UNCHANGED <<sortVars, starterVars, gameVars>>

Next == Compare

Spec == Init /\ [][Next]_vars

(***************************************************************************)
(* A list of faces: the starters of the sequences that include them, and   *)
(* the faces as starters, sorted and compared                              *)
(***************************************************************************)
InitStarters ==
    /\ pc = "input"
    /\ incumbent_hand = <<>>
    /\ challenger_hand = <<>>
    /\ ranks_given = FALSE
    /\ ranks = <<>>
    /\ NoResults
    /\ faces \in StarterLists
    /\ sequence_length = 0
    /\ invalid = {}
    /\ starters = {}
    /\ most_frequent = RAISED
    /\ sorted_result = <<>>
    /\ max_starter = RAISED
    /\ min_starter = RAISED
    /\ greater = <<>>
    /\ lesser = <<>>
    /\ NoGame

\* get_starters_of_sequences_including_faces and
\* get_most_frequent_starter_of_sequences_including_faces of the faces, for a
\* sequence length and a set of excluded starters
GetStarters ==
    /\ pc = "input"
    /\ pc' = "starters"
    /\ \E length \in 1..Cardinality(Face), excluded \in ExcludedSets :
          /\ sequence_length' = length
          /\ invalid' = excluded
          /\ starters' = get_starters_of_sequences_including_faces(faces, length, excluded)
          /\ most_frequent' =
                get_most_frequent_starter_of_sequences_including_faces(faces, length, excluded)
    /\ UNCHANGED <<handVars, sortVars, faces, sorted_result, max_starter, min_starter,
                   greater, lesser, gameVars>>

\* sorted_starters(faces, reverse=...), get_max_straight_starter(faces) and
\* get_min_straight_starter(faces); the last two raise IndexError on no faces
SortStarters ==
    /\ pc = "input"
    /\ pc' = "sorted"
    /\ \E r \in BOOLEAN :
          /\ reverse' = r
          /\ sorted_result' = sorted_starters(faces, r)
    /\ max_starter' = IF faces = <<>> THEN RAISED ELSE get_max_straight_starter(faces)
    /\ min_starter' = IF faces = <<>> THEN RAISED ELSE get_min_straight_starter(faces)
    /\ UNCHANGED <<handVars, accepted, face_group_items, suit_group_items, faces,
                   sequence_length, invalid, starters, most_frequent, greater, lesser,
                   gameVars>>

\* is_straight_starter_greater and is_straight_starter_lesser of the first
\* two faces, as (first, second) and as (second, first)
CompareStarters ==
    /\ pc = "input"
    /\ Len(faces) >= 2
    /\ pc' = "starters compared"
    /\ greater' = <<is_straight_starter_greater(faces[1], faces[2]),
                    is_straight_starter_greater(faces[2], faces[1])>>
    /\ lesser' = <<is_straight_starter_lesser(faces[1], faces[2]),
                   is_straight_starter_lesser(faces[2], faces[1])>>
    /\ UNCHANGED <<handVars, sortVars, faces, sequence_length, invalid, starters,
                   most_frequent, sorted_result, max_starter, min_starter, gameVars>>

NextStarters == GetStarters \/ SortStarters \/ CompareStarters

SpecStarters == InitStarters /\ [][NextStarters]_vars

(***************************************************************************)
(* The game: Game.__init__, then main_loop                                 *)
(***************************************************************************)
\* a game that has not dealt: the hands are empty, the deck is full
NotDealt ==
    /\ hands = [p \in Players |-> <<>>]
    /\ round = 0
    /\ turn = 1
    /\ chosen = {}
    /\ kept = <<>>
    /\ removed = <<>>
    /\ discarded = {}
    /\ winners = <<>>

\* after Game(): three computer players with a discarder each out of
\* DISCARDERS, the user last, the deck built and shuffled
InitGame ==
    /\ pc = "ready"
    /\ incumbent_hand = <<>>
    /\ challenger_hand = <<>>
    /\ ranks_given = FALSE
    /\ ranks = <<>>
    /\ NoResults
    /\ NoStarters
    /\ deck \in ShuffledDecks
    /\ discarders \in {d \in [Players -> DISCARDERS \cup {USER_DISCARDER}] :
                          \A p \in Players :
                              d[p] = USER_DISCARDER <=> p = NUM_OF_PLAYERS}
    /\ NotDealt

\* main_loop: fill_all_player_hands()
FillAllPlayerHands ==
    /\ pc = "ready"
    /\ LET filled == FillAllLoop(hands, deck, 1)
       IN  /\ hands' = filled.hands
           /\ deck' = filled.deck
           /\ pc' = IF filled.raised THEN "IndexError" ELSE "discard"
    /\ UNCHANGED <<handVars, sortVars, starterVars, discarders, round, turn,
                   chosen, kept, removed, discarded, winners>>

\* get_targets_from_user, inside the user's discard: the user selects the
\* card at an index
SelectCard ==
    /\ pc = "discard"
    /\ discarders[turn] = USER_DISCARDER
    /\ \E index \in 1..Len(hands[turn]) :
          chosen' = select_target(chosen, hands[turn][index], MAX_NUM_OF_DISCARDS)
    /\ UNCHANGED <<pc, handVars, sortVars, starterVars, deck, hands, discarders,
                   round, turn, kept, removed, discarded, winners>>

\* execute_rounds: execute_player_discard(player), for the user once the
\* selection is confirmed
ExecutePlayerDiscard ==
    /\ pc = "discard"
    /\ LET hand == hands[turn]
           keeper_cards == get_keeper_cards(discarders[turn], hand, chosen)
           cards_to_be_discarded == get_discards(discarders[turn], keeper_cards, hand)
       IN  /\ kept' = keeper_cards
           /\ removed' = cards_to_be_discarded
           /\ hands' = [hands EXCEPT ![turn] = DiscardLoop(hand, cards_to_be_discarded, 1)]
           /\ discarded' = discarded \cup Range(cards_to_be_discarded)
    /\ chosen' = {}
    /\ pc' = "fill"
    /\ UNCHANGED <<handVars, sortVars, starterVars, deck, discarders, round, turn,
                   winners>>

\* execute_rounds: fill_player_hand(player), then the next player or round
FillPlayerHand ==
    /\ pc = "fill"
    /\ LET filled == fill_player_hand(hands[turn], deck)
           last_player == turn = NUM_OF_PLAYERS
           last_round == round + 1 = NUM_OF_ROUNDS
       IN  /\ hands' = [hands EXCEPT ![turn] = filled.hand]
           /\ deck' = filled.deck
           /\ turn' = IF filled.raised THEN turn ELSE IF last_player THEN 1 ELSE turn + 1
           /\ round' = IF ~filled.raised /\ last_player THEN round + 1 ELSE round
           /\ pc' = IF filled.raised THEN "IndexError"
                    ELSE IF last_player /\ last_round THEN "rounds over"
                    ELSE "discard"
    /\ UNCHANGED <<handVars, sortVars, starterVars, discarders, chosen, kept,
                   removed, discarded, winners>>

\* main_loop: display_all_players(), display_all_winners()
DisplayAllWinners ==
    /\ pc = "rounds over"
    /\ winners' = find_winners(hands)
    /\ pc' = "shown"
    /\ UNCHANGED <<handVars, sortVars, starterVars, deck, hands, discarders, round,
                   turn, chosen, kept, removed, discarded>>

\* main_loop: the user plays again: reset() clears the hands and builds and
\* shuffles a new deck
PlayAgain ==
    /\ pc = "shown"
    /\ pc' = "ready"
    /\ deck' \in ShuffledDecks
    /\ hands' = [p \in Players |-> <<>>]
    /\ round' = 0
    /\ turn' = 1
    /\ chosen' = {}
    /\ kept' = <<>>
    /\ removed' = <<>>
    /\ discarded' = {}
    /\ winners' = <<>>
    /\ UNCHANGED <<handVars, sortVars, starterVars, discarders>>

\* main_loop: the user quits
Quit ==
    /\ pc = "shown"
    /\ pc' = "quit"
    /\ UNCHANGED <<handVars, sortVars, starterVars, gameVars>>

NextGame ==
    \/ FillAllPlayerHands
    \/ SelectCard
    \/ ExecutePlayerDiscard
    \/ FillPlayerHand
    \/ DisplayAllWinners
    \/ PlayAgain
    \/ Quit

SpecGame == InitGame /\ [][NextGame]_vars

(***************************************************************************)
(* Four players holding hands of one deck: the winners                     *)
(***************************************************************************)
InitWinners ==
    /\ pc = "input"
    /\ incumbent_hand = <<>>
    /\ challenger_hand = <<>>
    /\ ranks_given = FALSE
    /\ ranks = <<>>
    /\ NoResults
    /\ NoStarters
    /\ deck = <<>>
    /\ hands \in {h \in [Players -> WinnerHands] :
                     \A p, q \in Players : p < q => Range(h[p]) \cap Range(h[q]) = {}}
    /\ discarders = <<>>
    /\ round = 0
    /\ turn = 0
    /\ chosen = {}
    /\ kept = <<>>
    /\ removed = <<>>
    /\ discarded = {}
    /\ winners = <<>>

\* winners = find_winners()
FindWinners ==
    /\ pc = "input"
    /\ pc' = "winners"
    /\ winners' = find_winners(hands)
    /\ UNCHANGED <<handVars, sortVars, starterVars, deck, hands, discarders, round,
                   turn, chosen, kept, removed, discarded>>

NextWinners == FindWinners

SpecWinners == InitWinners /\ [][NextWinners]_vars

(***************************************************************************)
(* What the properties speak of, stated on the cards themselves            *)
(***************************************************************************)
FaceSet(hand) == {face_of(hand[i]) : i \in 1..Len(hand)}
SuitSet(hand) == {suit_of(hand[i]) : i \in 1..Len(hand)}
FaceCount(hand, f) == Cardinality({i \in 1..Len(hand) : face_of(hand[i]) = f})
SuitCount(hand, u) == Cardinality({i \in 1..Len(hand) : suit_of(hand[i]) = u})
OneSuit(hand) == Cardinality(SuitSet(hand)) = 1
MixedSuits(hand) == Cardinality(SuitSet(hand)) > 1
FiveCards(hand) == Len(hand) = 5

\* the faces of a hand, one entry per face, by descending number of cards of
\* the face and then by descending face value
Outranks(hand, f, g) ==
    \/ FaceCount(hand, f) > FaceCount(hand, g)
    \/ FaceCount(hand, f) = FaceCount(hand, g) /\ f > g
GroupFaces(hand) ==
    [k \in 1..Cardinality(FaceSet(hand)) |->
        CHOOSE f \in FaceSet(hand) :
            Cardinality({g \in FaceSet(hand) : Outranks(hand, g, f)}) = k - 1]

\* the values of the cards of a hand from the highest to the lowest
DescValues(hand) ==
    [k \in 1..Len(hand) |->
        CHOOSE x \in FaceSet(hand) :
            /\ Cardinality({i \in 1..Len(hand) : value_of(hand[i]) > x}) < k
            /\ Cardinality({i \in 1..Len(hand) : value_of(hand[i]) >= x}) >= k]

\* lexicographic comparison of two lists of numbers of one length
LexCompare(a, b) ==
    IF a = b THEN EQUAL
    ELSE LET i == SetMin({j \in 1..Len(a) : a[j] # b[j]})
         IN  IF a[i] > b[i] THEN GREATER ELSE LESSER

\* the place of a face in the ace-low order A, 2, 3, ..., Q, K
AceLowIndex(f) == IF f = ACE THEN 1 ELSE f

\* the faces s, next(s), ... of a run of five
RunFrom(s) == {IF s + k > ACE THEN s + k - 13 ELSE s + k : k \in 0..4}
IsRun(hand) == \E s \in Face : FaceSet(hand) = RunFrom(s)
RunStarter(hand) == CHOOSE s \in Face : FaceSet(hand) = RunFrom(s)

\* the hand in every order of its cards
Reorderings(hand) ==
    {[i \in 1..Len(hand) |-> hand[p[i]]] : p \in Permutations(1..Len(hand))}

FrequencyValues == 1..4 \cup {7, 8}
SequentialValues == {5, 9, 10}

\* the sum of n * Len(lists[n]) over n
RECURSIVE WeightedSum(_, _)
WeightedSum(lists, n) ==
    IF n = 0 THEN 0 ELSE n * Len(lists[n]) + WeightedSum(lists, n - 1)

\* the value of the first of the candidates the hand satisfies, 0 when none
FirstSatisfied(hand, values) ==
    LET hits == {i \in 1..Len(values) : is_rank(RankOfValue(values[i]), hand) = "True"}
    IN  IF hits = {} THEN NULL_RANK.value ELSE values[SetMin(hits)]

(***************************************************************************)
(* Properties                                                              *)
(***************************************************************************)
\* C1: with the default catalog get_rank returns the null rank (value 0)
\* exactly for the hands that do not hold 5 cards, a rank of value 1..10 for
\* every hand of 5 cards, and it never raises, the empty hand included.
C1_NullRankIffNotFiveCards ==
    pc = "classified" =>
        /\ rank # RAISED
        /\ rank = NULL_RANK.value <=> Len(incumbent_hand) # REQUIRED_LENGTH
        /\ Len(incumbent_hand) = REQUIRED_LENGTH => rank \in 1..10

C1_Witness ==
    /\ pc = "classified"
    /\ incumbent_hand = <<>>
    /\ rank = NULL_RANK.value

\* C2: when the incumbent's rank value is strictly higher than the
\* challenger's, compare_hands gives GREATER, and LESSER the other way round,
\* whatever the faces are.
C2_HigherRankWins ==
    (pc = "compared" /\ rank > challenger_rank) =>
        (result = GREATER /\ reverse_result = LESSER)

\* a higher rank wins although its cards are the lower ones
C2_Witness ==
    /\ pc = "compared"
    /\ rank > challenger_rank
    /\ result = GREATER
    /\ compare_by_value(incumbent_hand, challenger_hand) = LESSER

\* C3: compare_hands is antisymmetric: GREATER one way round iff LESSER the
\* other way round, EQUAL iff EQUAL.
C3_Antisymmetric ==
    pc = "compared" =>
        /\ result = GREATER <=> reverse_result = LESSER
        /\ result = LESSER <=> reverse_result = GREATER
        /\ result = EQUAL <=> reverse_result = EQUAL

\* two flushes of different faces, decided by the tie-break
C3_Witness ==
    /\ pc = "compared"
    /\ rank = FLUSH.value
    /\ challenger_rank = FLUSH.value
    /\ result = LESSER
    /\ reverse_result = GREATER

AceToFive == {ACE, TWO, THREE, FOUR, FIVE}
TwoToSix == {TWO, THREE, FOUR, FIVE, SIX}
TenToAce == {TEN, JACK, QUEEN, KING, ACE}
NineToKing == {NINE, TEN, JACK, QUEEN, KING}

MostFrequentStarter(hand) ==
    get_most_frequent_starter_of_sequences_including_faces(
        get_faces(hand), REQUIRED_LENGTH, INVALID_STRAIGHT_STARTERS)

\* C4: a hand of the faces A,2,3,4,5 in mixed suits is a Straight of starter
\* Ace, 2..6 a Straight of starter Two, 10..A a Straight of starter Ten; in
\* starter precedence Ace < Two < Ten, and compare_hands orders the three
\* straights A-5 < 2-6 < 10-A.
C4_AceLowStraightIsLowest ==
    /\ is_straight_starter_lesser(ACE, TWO) /\ ~is_straight_starter_greater(ACE, TWO)
    /\ is_straight_starter_lesser(TWO, TEN) /\ ~is_straight_starter_greater(TWO, TEN)
    /\ is_straight_starter_lesser(ACE, TEN) /\ ~is_straight_starter_greater(ACE, TEN)
    /\ pc = "compared" =>
        LET inc == incumbent_hand
            cha == challenger_hand
            low(h) == FiveCards(h) /\ MixedSuits(h) /\ FaceSet(h) = AceToFive
            mid(h) == FiveCards(h) /\ MixedSuits(h) /\ FaceSet(h) = TwoToSix
            top(h) == FiveCards(h) /\ MixedSuits(h) /\ FaceSet(h) = TenToAce
        IN  /\ low(inc) => rank = STRAIGHT.value /\ MostFrequentStarter(inc) = ACE
            /\ mid(inc) => rank = STRAIGHT.value /\ MostFrequentStarter(inc) = TWO
            /\ top(inc) => rank = STRAIGHT.value /\ MostFrequentStarter(inc) = TEN
            /\ (low(inc) /\ mid(cha)) => result = LESSER /\ reverse_result = GREATER
            /\ (mid(inc) /\ top(cha)) => result = LESSER /\ reverse_result = GREATER
            /\ (low(inc) /\ top(cha)) => result = LESSER /\ reverse_result = GREATER
            /\ (mid(inc) /\ low(cha)) => result = GREATER /\ reverse_result = LESSER
            /\ (top(inc) /\ mid(cha)) => result = GREATER /\ reverse_result = LESSER
            /\ (top(inc) /\ low(cha)) => result = GREATER /\ reverse_result = LESSER
            /\ (low(inc) /\ mid(cha)) =>
                  \A h \in Reorderings(inc) :
                      /\ classify(h).value = STRAIGHT.value
                      /\ MostFrequentStarter(h) = ACE
                      /\ compare_hands(h, cha) = LESSER
                      /\ compare_hands(cha, h) = GREATER

\* the ace-low straight, dealt 5,4,3,2,A, against 2-6
C4_Witness ==
    /\ pc = "compared"
    /\ FaceSet(incumbent_hand) = AceToFive /\ MixedSuits(incumbent_hand)
    /\ face_of(incumbent_hand[1]) = FIVE
    /\ FaceSet(challenger_hand) = TwoToSix /\ MixedSuits(challenger_hand)
    /\ rank = STRAIGHT.value
    /\ result = LESSER

\* C5: the faces 10,J,Q,K,A of one suit are a Royal Flush (value 10), the
\* faces 9,10,J,Q,K of one suit a Straight Flush (value 9), in any order of
\* the cards, and the Royal Flush compares GREATER than the Straight Flush.
C5_RoyalFlushBeatsStraightFlush ==
    pc = "compared" =>
        LET inc == incumbent_hand
            cha == challenger_hand
            royal(h) == FiveCards(h) /\ OneSuit(h) /\ FaceSet(h) = TenToAce
            nine(h) == FiveCards(h) /\ OneSuit(h) /\ FaceSet(h) = NineToKing
        IN  /\ royal(inc) => rank = ROYAL_FLUSH.value
            /\ royal(cha) => challenger_rank = ROYAL_FLUSH.value
            /\ nine(inc) => rank = STRAIGHT_FLUSH.value
            /\ nine(cha) => challenger_rank = STRAIGHT_FLUSH.value
            /\ (royal(inc) /\ nine(cha)) => result = GREATER
            /\ (nine(inc) /\ royal(cha)) => reverse_result = GREATER
            /\ (royal(inc) /\ nine(cha)) =>
                  \A h \in Reorderings(inc), g \in {cha, Arrange(cha, 1)} :
                      /\ classify(h).value = ROYAL_FLUSH.value
                      /\ compare_hands(h, g) = GREATER
            /\ (nine(inc) /\ royal(cha)) =>
                  \A h \in Reorderings(inc), g \in {cha, Arrange(cha, 1)} :
                      /\ classify(h).value = STRAIGHT_FLUSH.value
                      /\ compare_hands(g, h) = GREATER

\* a Royal Flush dealt Ace first, in another suit than the Straight Flush
C5_Witness ==
    /\ pc = "compared"
    /\ OneSuit(incumbent_hand) /\ FaceSet(incumbent_hand) = TenToAce
    /\ face_of(incumbent_hand[1]) = ACE
    /\ OneSuit(challenger_hand) /\ FaceSet(challenger_hand) = NineToKing
    /\ SuitSet(incumbent_hand) # SuitSet(challenger_hand)
    /\ rank = ROYAL_FLUSH.value /\ challenger_rank = STRAIGHT_FLUSH.value
    /\ result = GREATER

\* C6: for two hands of one frequency-category rank (High Card, Pair, Two
\* Pair, Three of a Kind, Full House, Four of a Kind) compare_hands is the
\* lexicographic comparison of their faces listed by descending group size
\* and then descending face value; K,K,K,2,2 beats Q,Q,Q,A,A and A,A,K,K,2
\* beats A,A,Q,Q,9.
C6_FrequencyTieBreakIsLexicographic ==
    pc = "compared" =>
        /\ (rank = challenger_rank /\ rank \in FrequencyValues) =>
              /\ Len(GroupFaces(incumbent_hand)) = Len(GroupFaces(challenger_hand))
              /\ result = LexCompare(GroupFaces(incumbent_hand), GroupFaces(challenger_hand))
        /\ (FaceSet(incumbent_hand) = {KING, TWO} /\ FaceCount(incumbent_hand, KING) = 3
            /\ FaceSet(challenger_hand) = {QUEEN, ACE} /\ FaceCount(challenger_hand, QUEEN) = 3)
              => result = GREATER
        /\ (incumbent_hand = AAKK2 /\ challenger_hand = AAQQ9) => result = GREATER

\* the two full houses of the example, the incumbent's pair dealt first
C6_Witness ==
    /\ pc = "compared"
    /\ FaceSet(incumbent_hand) = {KING, TWO} /\ FaceCount(incumbent_hand, KING) = 3
    /\ face_of(incumbent_hand[1]) = TWO
    /\ FaceSet(challenger_hand) = {QUEEN, ACE} /\ FaceCount(challenger_hand, QUEEN) = 3
    /\ rank = FULL_HOUSE.value /\ challenger_rank = FULL_HOUSE.value
    /\ result = GREATER

\* C7: for two Flushes compare_hands compares the values sorted from the
\* highest (Ace = 14) to the lowest position by position, the first difference
\* decides, five equal values give EQUAL whatever the suits; {2,5,7,9,K} of
\* Spades against {3,5,7,9,K} of Hearts is LESSER.
C7_FlushTieBreakByDescendingValues ==
    pc = "compared" =>
        /\ (rank = FLUSH.value /\ challenger_rank = FLUSH.value) =>
              result = LexCompare(DescValues(incumbent_hand), DescValues(challenger_hand))
        /\ (incumbent_hand = SpadeFlush /\ challenger_hand = HeartFlush) => result = LESSER

C7_Witness ==
    /\ pc = "compared"
    /\ incumbent_hand = SpadeFlush
    /\ challenger_hand = HeartFlush
    /\ rank = FLUSH.value /\ challenger_rank = FLUSH.value
    /\ result = LESSER

\* C8: for two hands of one sequential rank (Straight, Straight Flush, Royal
\* Flush) compare_hands is decided by the starters of the two runs in the
\* ace-low order: GREATER iff the incumbent's starter is later in it, LESSER
\* iff earlier, EQUAL iff the starters are the same face; two Royal Flushes
\* compare EQUAL.
C8_SequentialTieBreakByStarter ==
    (pc = "compared" /\ rank = challenger_rank /\ rank \in SequentialValues) =>
        LET inc == AceLowIndex(RunStarter(incumbent_hand))
            cha == AceLowIndex(RunStarter(challenger_hand))
        IN  /\ IsRun(incumbent_hand) /\ IsRun(challenger_hand)
            /\ MostFrequentStarter(incumbent_hand) = RunStarter(incumbent_hand)
            /\ MostFrequentStarter(challenger_hand) = RunStarter(challenger_hand)
            /\ result = GREATER <=> inc > cha
            /\ result = LESSER <=> inc < cha
            /\ result = EQUAL <=> inc = cha
            /\ rank = ROYAL_FLUSH.value => result = EQUAL

\* the Ace starts the lower run although its raw value is the highest
C8_Witness ==
    /\ pc = "compared"
    /\ rank = STRAIGHT_FLUSH.value /\ challenger_rank = STRAIGHT_FLUSH.value
    /\ RunStarter(incumbent_hand) = ACE
    /\ RunStarter(challenger_hand) = TWO
    /\ result = LESSER

\* C9: for every hand, repeated cards included, the sum over n of n times the
\* number of faces get_faces_with_frequency(n) returns is the number of
\* cards, every face of the hand is returned once and for the one n that is
\* the size of its group; the same for the suits.
C9_FrequencyRoundTrip ==
    pc = "frequencies" =>
        LET hand == incumbent_hand
            n == Len(hand)
        IN  /\ WeightedSum(faces_with, n) = n
            /\ WeightedSum(suits_with, n) = n
            /\ \A f \in FaceSet(hand), k \in 1..n :
                  Count(faces_with[k], f) = IF k = FaceCount(hand, f) THEN 1 ELSE 0
            /\ \A u \in SuitSet(hand), k \in 1..n :
                  Count(suits_with[k], u) = IF k = SuitCount(hand, u) THEN 1 ELSE 0
            /\ \A k \in 1..n : Range(faces_with[k]) \subseteq FaceSet(hand)
            /\ \A k \in 1..n : Range(suits_with[k]) \subseteq SuitSet(hand)

\* a hand of six cards, one card held twice, groups of three different sizes
C9_Witness ==
    /\ pc = "frequencies"
    /\ Len(incumbent_hand) = 6
    /\ ~IsDistinct(incumbent_hand)
    /\ Len(faces_with[1]) = 1 /\ Len(faces_with[2]) = 1 /\ Len(faces_with[3]) = 1

AllRanks ==
    {HIGH, PAIR, TWO_PAIR, THREE_OF_A_KIND, STRAIGHT, FLUSH, FULL_HOUSE,
     FOUR_OF_A_KIND, STRAIGHT_FLUSH, ROYAL_FLUSH}

\* the values of the ranks whose validators all accept the hand
SatisfiedValues(hand) == {r.value : r \in {q \in AllRanks : is_rank(q, hand) = "True"}}

\* C11: with the default catalog get_rank returns, for every 5-card hand, the
\* rank of the greatest value among the ten ranks the hand satisfies; the
\* catalog lists the values 10, 9, ..., 1 in this order; a hand that satisfies
\* Straight Flush satisfies Flush and Straight, one that satisfies Royal Flush
\* satisfies Straight Flush.
C11_ClassifyReturnsGreatestSatisfied ==
    /\ Len(DEFAULT_RANKS) = 10
    /\ \A i \in 1..Len(DEFAULT_RANKS) : DEFAULT_RANKS[i].value = 11 - i
    /\ (pc = "classified" /\ FiveCards(incumbent_hand)) =>
          LET satisfied == SatisfiedValues(incumbent_hand)
          IN  /\ satisfied # {}
              /\ rank = SetMax(satisfied)
              /\ STRAIGHT_FLUSH.value \in satisfied =>
                    {FLUSH.value, STRAIGHT.value} \subseteq satisfied
              /\ ROYAL_FLUSH.value \in satisfied => STRAIGHT_FLUSH.value \in satisfied

\* a hand that satisfies Straight Flush, Flush, Straight and High Card only
C11_Witness ==
    /\ pc = "classified"
    /\ FiveCards(incumbent_hand)
    /\ SatisfiedValues(incumbent_hand) =
          {STRAIGHT_FLUSH.value, FLUSH.value, STRAIGHT.value, HIGH.value}
    /\ rank = STRAIGHT_FLUSH.value

\* the starters whose run of five does not wrap past the Ace
RunStarters == {ACE} \cup TWO..TEN

\* C12: for every 5-card hand, the sequence validator with the excluded
\* starters Jack, Queen, King accepts the hand iff its faces are the five
\* faces s, next(s), ..., next^4(s) for a starter s among A, 2, ..., 10; a hand
\* with a repeated face is rejected, and so is a run from J, Q or K.
C12_SequenceValidatorAcceptsRuns ==
    (pc = "validated" /\ FiveCards(incumbent_hand)) =>
        LET hand == incumbent_hand
        IN  /\ accepted \in {"True", "False"}
            /\ accepted = "True" <=> \E s \in RunStarters : FaceSet(hand) = RunFrom(s)
            /\ Cardinality(FaceSet(hand)) < 5 => accepted = "False"
            /\ (\E s \in INVALID_STRAIGHT_STARTERS : FaceSet(hand) = RunFrom(s)) =>
                  accepted = "False"

\* the run 10-J-Q-K-A, the Ace dealt first, is accepted
C12_Witness ==
    /\ pc = "validated"
    /\ FiveCards(incumbent_hand)
    /\ FaceSet(incumbent_hand) = RunFrom(TEN)
    /\ face_of(incumbent_hand[1]) = ACE
    /\ accepted = "True"

\* (number of cards, value of the highest card) of the group of an item
SizeAndHighest(item) ==
    <<Len(item[2]), SetMax({value_of(item[2][i]) : i \in 1..Len(item[2])})>>

\* the items run from the greatest (size, highest value) to the least
IsDescending(items) ==
    \A k \in 1..(Len(items) - 1) :
        LET a == SizeAndHighest(items[k])
            b == SizeAndHighest(items[k + 1])
        IN  a[1] > b[1] \/ (a[1] = b[1] /\ a[2] >= b[2])

\* the items are those of the grouping, each once
IsRearrangement(items, grouping) ==
    /\ Len(items) = Len(grouping)
    /\ \A k \in 1..Len(grouping) : Count(items, grouping[k]) = 1

CyclicRun(s, length) ==
    {((s - MIN_VALUE + k) % Cardinality(Face)) + MIN_VALUE : k \in 0..(length - 1)}

\* the number of different faces of the list that lie in the sequence from s
FacesCovered(list, s, length) == Cardinality(Range(list) \cap CyclicRun(s, length))

\* C13: for every list of faces, sequence length L in 1..13 and excluded set
\* X, the keys of the Counter of get_starters_of_sequences_including_faces
\* lie outside X, and the count of a key s is the number of different faces
\* of the list in get_sequence_of_starter(s, L), a repeated face counting
\* once; when there is a key, the most frequent starter is a key of the
\* maximum count, and of the keys of that count the greatest in the ace-low
\* order.
C13_StarterCounter ==
    pc = "starters" =>
        LET keys == CounterKeys(starters)
            count(s) == (CHOOSE item \in starters : item[1] = s)[2]
        IN  /\ Cardinality(keys) = Cardinality(starters)
            /\ keys \subseteq Face \ invalid
            /\ \A s \in keys :
                  /\ count(s) = FacesCovered(faces, s, sequence_length)
                  /\ count(s) =
                        Cardinality(Range(faces) \cap
                                    Range(get_sequence_of_starter(s, sequence_length)))
                  /\ count(s) >= 1
            /\ \A s \in Face \ invalid :
                  FacesCovered(faces, s, sequence_length) >= 1 => s \in keys
            /\ keys # {} =>
                  /\ most_frequent \in keys
                  /\ \A s \in keys :
                        \/ count(s) < count(most_frequent)
                        \/ /\ count(s) = count(most_frequent)
                           /\ AceLowIndex(s) <= AceLowIndex(most_frequent)
            /\ keys = {} => most_frequent = RAISED

\* a face held twice is counted once, and two starters tie at the maximum:
\* of K, K, A with sequences of two faces, K (K-A) is returned, not Q (Q-K)
\* and not A (A-2)
C13_Witness ==
    /\ pc = "starters"
    /\ Len(faces) > Cardinality(Range(faces))
    /\ sequence_length >= 2
    /\ invalid = {}
    /\ \E s \in CounterKeys(starters) :
          /\ s # most_frequent
          /\ <<s, FacesCovered(faces, most_frequent, sequence_length)>> \in starters
    /\ \E item \in starters : item[2] = Cardinality(Range(faces)) /\ item[2] >= 1

\* C14: the starter precedence is a strict total order of the 13 faces with
\* the Ace lowest, A < 2 < ... < Q < K, not the order of the values: of two
\* faces exactly one of greater, lesser, equal holds, greater(a, b) is
\* lesser(b, a), and sorted_starters, get_max_straight_starter and
\* get_min_straight_starter follow the same order.
C14_StarterPrecedence ==
    /\ pc = "starters compared" =>
          LET a == faces[1]
              b == faces[2]
          IN  /\ (IF greater[1] THEN 1 ELSE 0) + (IF lesser[1] THEN 1 ELSE 0)
                    + (IF a = b THEN 1 ELSE 0) = 1
              /\ greater[1] <=> lesser[2]
              /\ lesser[1] <=> greater[2]
              /\ greater[1] <=> AceLowIndex(a) > AceLowIndex(b)
              /\ lesser[1] <=> AceLowIndex(a) < AceLowIndex(b)
              /\ (a = ACE /\ b # ACE) =>
                    (lesser[1] /\ value_of(Card(a, SPADES)) > value_of(Card(b, SPADES)))
    /\ pc = "sorted" =>
          /\ Len(sorted_result) = Len(faces)
          /\ \A f \in Face : Count(sorted_result, f) = Count(faces, f)
          /\ \A k \in 1..(Len(sorted_result) - 1) :
                IF reverse
                THEN /\ ~is_straight_starter_lesser(sorted_result[k], sorted_result[k + 1])
                     /\ AceLowIndex(sorted_result[k]) >= AceLowIndex(sorted_result[k + 1])
                ELSE /\ ~is_straight_starter_greater(sorted_result[k], sorted_result[k + 1])
                     /\ AceLowIndex(sorted_result[k]) <= AceLowIndex(sorted_result[k + 1])
          /\ faces # <<>> =>
                /\ max_starter \in Range(faces)
                /\ min_starter \in Range(faces)
                /\ \A f \in Range(faces) :
                      /\ ~is_straight_starter_greater(f, max_starter)
                      /\ ~is_straight_starter_lesser(f, min_starter)

\* the Ace and the King, sorted: the Ace is first and the least, the King is
\* last and the greatest
C14_Witness ==
    /\ pc = "sorted"
    /\ ~reverse
    /\ faces = <<KING, ACE>>
    /\ sorted_result = <<ACE, KING>>
    /\ max_starter = KING
    /\ min_starter = ACE

\* the two hands hold every face the same number of times
SameFaces(hand1, hand2) == \A f \in Face : FaceCount(hand1, f) = FaceCount(hand2, f)

\* C19: for 5-card hands A and B of different cards, compare_hands(A, B) is
\* EQUAL iff A and B have the same rank and the same faces with the same
\* multiplicities; the suits and the order of the cards do not change the
\* result, and the closing comparison of the lengths (of the lists of groups,
\* of the hands) gives EQUAL whenever the ranks agree.
C19_EqualIffSameRankAndFaces ==
    pc = "compared" =>
        LET A == incumbent_hand
            B == challenger_hand
        IN  /\ result = EQUAL <=> (rank = challenger_rank /\ SameFaces(A, B))
            /\ reverse_result = EQUAL <=> result = EQUAL
            /\ rank = challenger_rank =>
                  /\ compare_length(get_groups_by_face(A), get_groups_by_face(B)) = EQUAL
                  /\ compare_length(A, B) = EQUAL
                  /\ compare_hands(Arrange(A, 1), Arrange(B, 2)) = result

\* two flushes of the same faces in different suits, the cards in different
\* orders, are EQUAL
C19_Witness ==
    /\ pc = "compared"
    /\ rank = FLUSH.value
    /\ challenger_rank = FLUSH.value
    /\ SuitSet(incumbent_hand) # SuitSet(challenger_hand)
    /\ get_faces(incumbent_hand) # get_faces(challenger_hand)
    /\ SameFaces(incumbent_hand, challenger_hand)
    /\ result = EQUAL

\* the positions of the game loop
GamePositions == {"ready", "discard", "fill", "rounds over", "shown", "quit", "IndexError"}

\* the cards of the deck and of all the hands, one after another
CardsInPlay == deck \o hands[1] \o hands[2] \o hands[3] \o hands[4]

\* the cards taken from the deck since it was built
Drawn == Len(NewDeck) - Len(deck)

\* the discards of the game that are over
DiscardsDone == round * NUM_OF_PLAYERS + (turn - 1) + (IF pc = "fill" THEN 1 ELSE 0)

\* C17: in every run of main_loop, whatever the discarders of the players
\* and whatever is discarded, deck.pop() is never executed on an empty deck:
\* a game deals 4 x 5 cards and each of the 2 x 4 discards is of at most
\* MAX_NUM_OF_DISCARDS = 3 cards, so at most 44 of the 52 cards are drawn
\* before reset() builds a new deck.
C17_DeckNeverRunsOut ==
    /\ pc # "IndexError"
    /\ pc \in GamePositions =>
          /\ Len(NewDeck) = 52
          /\ Drawn <= 44
          /\ pc = "ready" => Drawn = 0
          /\ pc # "ready" =>
                /\ Drawn >= NUM_OF_PLAYERS * MAX_HAND_LENGTH
                /\ Drawn + (IF pc = "fill" THEN Len(removed) ELSE 0)
                      <= NUM_OF_PLAYERS * MAX_HAND_LENGTH + DiscardsDone * MAX_NUM_OF_DISCARDS

\* a game that is over in which every discard was of three cards: 44 cards
\* were drawn, 8 are left
C17_Witness ==
    /\ pc = "shown"
    /\ Drawn = 44
    /\ Len(deck) = 8

\* C18: between the building of the deck and the next reset no card is in
\* two hands or in a hand and the deck, and a discarded card is in neither;
\* after fill_player_hand the hand holds 5 cards; a discard removes at most 3
\* cards, none of them a card the keeper function returned; when the hands
\* are ranked and compared every player holds 5 different cards.
C18_CardConservation ==
    pc \in GamePositions =>
        /\ Cardinality(Range(NewDeck)) = Len(NewDeck)
        /\ Cardinality(Range(CardsInPlay)) = Len(CardsInPlay)
        /\ Range(CardsInPlay) \subseteq Range(NewDeck)
        /\ discarded \cap Range(CardsInPlay) = {}
        /\ Len(CardsInPlay) + Cardinality(discarded) = Len(NewDeck)
        /\ pc = "ready" => \A p \in Players : hands[p] = <<>>
        /\ pc \in {"discard", "rounds over", "shown", "quit"} =>
              \A p \in Players : Len(hands[p]) = MAX_HAND_LENGTH
        /\ pc = "fill" =>
              /\ \A p \in Players \ {turn} : Len(hands[p]) = MAX_HAND_LENGTH
              /\ Len(removed) <= MAX_NUM_OF_DISCARDS
              /\ Len(hands[turn]) = MAX_HAND_LENGTH - Len(removed)
              /\ Range(removed) \cap Range(kept) = {}
              /\ Range(removed) \cap Range(hands[turn]) = {}
              /\ Range(kept) \subseteq Range(hands[turn])
              /\ Range(removed) \subseteq discarded
        /\ pc \in {"rounds over", "shown"} =>
              \A p \in Players : /\ Len(hands[p]) = 5
                                 /\ IsDistinct(hands[p])

\* in the second round the user has discarded three cards and kept two
C18_Witness ==
    /\ pc = "fill"
    /\ round = 1
    /\ discarders[turn] = USER_DISCARDER
    /\ Len(removed) = 3
    /\ Len(kept) = 2
    /\ Cardinality(discarded) > 12

\* C16: find_winners returns the players no other player's hand beats: for
\* every four 5-card hands of one deck the list is not empty, a player is in
\* it iff no other player's hand compares GREATER than theirs, and the hands
\* of the players in it compare EQUAL to one another.
C16_WinnersAreCoMaximal ==
    pc = "winners" =>
        /\ winners # <<>>
        /\ Range(winners) \subseteq Players
        /\ Cardinality(Range(winners)) = Len(winners)
        /\ \A p \in Players :
              p \in Range(winners) <=>
                  \A q \in Players \ {p} : compare_hands(hands[q], hands[p]) # GREATER
        /\ \A p, q \in Range(winners) : compare_hands(hands[p], hands[q]) = EQUAL

\* the first player holds a beaten hand and the other three tie: the key
\* incumbent is replaced and the two later players are added to it
C16_Witness ==
    /\ pc = "winners"
    /\ winners = <<2, 3, 4>>

====
